---- MODULE Spec2Model ----
(***************************************************************************)
(* Model of nnev/kasse: the swipe handler Kasse.HandleCard (main.go), the  *)
(* balance queries, and the card-registration listener Kasse.AddCardEvent  *)
(* (http.go), which share the unbuffered channel k.card and the mutex      *)
(* k.registration.                                                         *)
(***************************************************************************)
EXTENDS Integers, Sequences, FiniteSets, TLC

(* ---------------------------------------------------------------- bounds *)
\* the transactions table holds at most MaxTx rows
MaxTx == 3
\* at most MaxTopUps manual top-ups are made
MaxTopUps == 1
\* a run of successive swipes of one user is followed for MaxSwipes swipes
MaxSwipes == 3
\* the scans of the reader yield at most MaxScans events
MaxScans == 3
\* GetNextUID is called at most MaxCalls times
MaxCalls == 3
\* at most MaxUsers users are registered
MaxUsers == 4

(* ------------------------------------------------------------- constants *)
\* amount charged per swipe (the INSERT writes -Charge) and the two
\* thresholds HandleCard compares the balance against
Charge == 100
EmptyBelow == 100
LowBelow == 600

(* ---------------------------------------------------------------- inputs *)
\* goroutines that call HandleCard: the hardware loop of main() and the
\* HTTP handler of /reader/swipe
Callers == {"hw", "http"}
\* HTTP requests to /add_card_event
Listeners == {"l1", "l2"}
\* card identifiers that are swiped; "foobar" is bound to nobody
UIDs == {"aaaa", "aaab", "baaa", "foobar"}
\* deposits made by top-ups
TopUpAmounts == {1, 500}
\* balances of user 1 in the database the program is started on
SeedBalances == {0, 99, 599, 800}

\* HTTP requests that register users and add or remove cards
Requests == {"r1", "r2"}

NoCard == ""
NoUser == [ID |-> 0, Name |-> ""]

VARIABLES
    users,          \* table users: set of [ID, Name]
    cards,          \* table cards: set of [ID, User]
    transactions,   \* table transactions, in insertion order
    registration,   \* k.registration: "" when unlocked, else the holder
    hc,             \* per caller: the HandleCard invocation in progress;
                    \* history fields: fault (the storage failure injected),
                    \* appended (rows this call committed), paths (who claimed
                    \* the swipe), sumAtRead (committed sum when balance was read)
    ret,            \* the HandleCard invocation that returned last: its
                    \* locals and the returned (res, err); pc "idle": none yet
    ls,             \* per listener: the AddCardEvent invocation, with what it
                    \* has received and written to its client
    committed,      \* history: per user, the running sum of committed amounts
    topups,         \* history: number of top-ups made
    queued,         \* history: the listeners that called Lock() while it was held
    lapsed,         \* history: "expired" once a window has timed out,
                    \* "reverted" once a swipe after that took the ledger path
    exits,          \* history: the ways AddCardEvent has returned holding the lock
    run,            \* history: the swipes of user 1 since the last top-up
    field,          \* the targets in the field of the NFC reader
    poller,         \* the goroutine running ConnectAndPollNFCReader
    mainloop,       \* the for loop at the end of main()
    scanned,        \* history: the events the scans have yielded
    taken,          \* history: the events main() has received
    begun,          \* history: the uids main() has called HandleCard with
    logged,         \* history: number of errors main() has logged
    pres,           \* history: scans that saw the card lying on the reader
                    \* and events it has yielded
    nr,             \* an nfcReader: its context, its polling goroutine, the
                    \* GetNextUID call and, as history, what the calls returned
    txq,            \* the last GetTransactions call and what it returned
    adm,            \* the last call of RegisterUser, AddCard, RemoveCard or
                    \* UpdateCard and what it returned
    reqs            \* per HTTP request: its call of RegisterUser, AddCard or
                    \* RemoveCard whose transaction is open

winvars == <<queued, lapsed, exits>>
rdvars == <<field, poller, mainloop, scanned, taken, begun, logged, pres>>
auxvars == <<nr, txq, adm, reqs>>
corevars == <<users, cards, transactions, registration, hc, ret, ls, committed, topups>>
vars == <<users, cards, transactions, registration, hc, ret, ls, committed, topups,
          winvars, run, rdvars, auxvars>>
tables == <<users, cards>>

(* ----------------------------------------------------------------- types *)
\* *Result; Code "nil" stands for the nil pointer
NilResult == [Code |-> "nil", UID |-> "", User |-> "", Account |-> 0]

MkResultNoUID(code, uid, name, account) ==
    [Code |-> code, UID |-> "", User |-> name, Account |-> account]

MkResult(code, uid, name, account) ==
    [Code |-> code, UID |-> uid, User |-> name, Account |-> account]

\* Result.Account is float32(balance) / 100; it is carried here in
\* hundredths, which the conversion keeps apart for |balance| < 2^24
AccountOf(balance) == balance

\* sql.NullInt64
NullInt64 == [Valid |-> FALSE, Int64 |-> 0]
ValidInt64(n) == [Valid |-> TRUE, Int64 |-> n]

\* a row of the transactions table without a card: a manual top-up
TopUpRow(u, amount) ==
    [User |-> u, Card |-> NoCard, Amount |-> amount, Kind |-> "Aufladung"]

(* ------------------------------------------------------------------- SQL *)
RECURSIVE SumAmounts(_)
SumAmounts(rows) ==
    IF rows = <<>> THEN 0
    ELSE Head(rows).Amount + SumAmounts(Tail(rows))

\* rows of one user, in table order
RowsOf(table, u) == SelectSeq(table, LAMBDA t : t.User = u)

\* SELECT SUM(amount) FROM transactions WHERE user_id = $1
\* SUM over no rows is NULL
SelectSumAllUsers(table, u) ==
    IF table = <<>> THEN NullInt64 ELSE ValidInt64(SumAmounts(table))

SelectSum(table, u) ==
    IF RowsOf(table, u) = <<>> THEN NullInt64
    ELSE ValidInt64(SumAmounts(RowsOf(table, u)))

\* SELECT ... FROM cards LEFT JOIN users ON cards.user_id = users.user_id
\* WHERE card_id = $1, scanned into a User; a row whose user columns are
\* NULL does not scan
SelectCardOwner(uid) ==
    { u \in users : \E c \in cards : c.ID = uid /\ c.User = u.ID }

\* GetBalance returns b.Int64 without looking at b.Valid
GetBalance(u) == SelectSum(transactions, u).Int64

\* a row as HandleCard inserts it
SwipeRowFirstUser(user, uid) ==
    [User |-> 1, Card |-> uid, Amount |-> 0 - Charge, Kind |-> "Kartenswipe"]

SwipeRowUncharged(user, uid) ==
    [User |-> user.ID, Card |-> uid, Amount |-> 0, Kind |-> "Kartenswipe"]

SwipeRow(user, uid) ==
    [User |-> user.ID, Card |-> uid, Amount |-> 0 - Charge, Kind |-> "Kartenswipe"]

\* NFCEvent; UID "" stands for the nil slice, Err "nil" for the nil error
NoEvent == [UID |-> "", Err |-> "nil"]

\* before any GetTransactions call
NoQuery == [user |-> 0, n |-> 0, out |-> <<>>, err |-> "none"]

\* before any call that changes users or cards
NoCall == [op |-> "", args |-> <<>>, res |-> <<>>, err |-> "none", fault |-> FALSE,
           tick |-> FALSE]

\* the bytes of a card identifier
Bytes(uid) ==
    CASE uid = "aaaa" -> <<97, 97, 97, 97>>
      [] uid = "aaab" -> <<97, 97, 97, 98>>
      [] uid = "baaa" -> <<98, 97, 97, 97>>
      [] uid = "baab" -> <<98, 97, 97, 98>>
      [] uid = "foobar" -> <<102, 111, 111, 98, 97, 114>>
      [] OTHER -> <<>>

\* hex.EncodeToString: two hexadecimal digits per byte, the high one first;
\* a digit is carried as its value
RECURSIVE EncodeToString(_)
EncodeToString(bytes) ==
    IF bytes = <<>> THEN <<>>
    ELSE <<Head(bytes) \div 16, Head(bytes) % 16>> \o EncodeToString(Tail(bytes))

\* an AddCardEvent invocation that has not started: uid is the local
\* variable; history: got, the identifiers it has received from k.card, and
\* reported, the digits of the "event: card" it has written
NotListening == [pc |-> "idle", uid |-> "", got |-> <<>>, reported |-> <<>>]

\* a request whose handler is not inside a transaction
NoRequest == [pc |-> "idle", op |-> "", args |-> <<>>]

(* ------------------------------------------------------------------ Init *)
\* a HandleCard invocation that has not started
Idle ==
    [pc |-> "idle", uid |-> "", user |-> NoUser, balance |-> 0,
     res |-> NilResult, err |-> "nil", fault |-> "",
     appended |-> 0, paths |-> {}, sumAtRead |-> 0]

NoReturn == Idle

InitFrom(seeds) ==
    /\ users = { [ID |-> 1, Name |-> "Merovius"], [ID |-> 2, Name |-> "Koebi"] }
    /\ cards = { [ID |-> "aaaa", User |-> 1, Description |-> ""], [ID |-> "aaab", User |-> 1, Description |-> ""],
                 [ID |-> "baaa", User |-> 2, Description |-> ""] }
    /\ \E seed \in seeds :
          /\ transactions = IF seed = 0 THEN <<>> ELSE <<TopUpRow(1, seed)>>
          /\ committed = [u \in {1, 2} |-> IF u = 1 THEN seed ELSE 0]
    /\ registration = ""
    /\ hc = [p \in Callers |-> Idle]
    /\ ret = NoReturn
    /\ ls = [l \in Listeners |-> NotListening]
    /\ topups = 0
    /\ queued = {}
    /\ lapsed = "none"
    /\ exits = {}
    /\ run = [B |-> committed[1], n |-> 0, d |-> 0]
    /\ field = <<>>
    /\ poller = [pc |-> "poll", ev |-> NoEvent]
    /\ mainloop = [pc |-> "recv", ev |-> NoEvent]
    /\ scanned = <<>>
    /\ taken = <<>>
    /\ begun = <<>>
    /\ logged = 0
    /\ pres = [seen |-> 0, events |-> 0]
    /\ nr = [closed |-> FALSE,
             sp |-> [pc |-> "scan", queue |-> <<>>],
             gn |-> "idle",
             results |-> <<>>,
             woke |-> FALSE]
    /\ txq = NoQuery
    /\ adm = NoCall
    /\ reqs = [r \in Requests |-> NoRequest]

Init == InitFrom(SeedBalances)

(* ------------------------------------------------ HandleCard (main.go) *)
\* the listeners parked in the select of AddCardEvent, receiving on k.card
NoReceivers == {}

ReceiversAgain == { l \in Listeners : ls[l].pc \in {"waiting", "received"} }

ReceiversHolding == { l \in Listeners : ls[l].pc \in {"waiting", "expired"} }

Receivers == { l \in Listeners : ls[l].pc = "waiting" }

\* balance < 100
IsEmptyBelowZero(balance) == balance < 0

IsEmpty(balance) == balance < EmptyBelow

\* the code set after the commit
ClassifyInclusive(balance) ==
    IF balance <= LowBelow THEN "LowBalance" ELSE "PaymentMade"

Classify(balance) ==
    IF balance < LowBelow THEN "LowBalance" ELSE "PaymentMade"

Entered(uid) == [Idle EXCEPT !.pc = "lookup", !.uid = uid]

\* case k.card <- uid: return &Result{UnknownCard, uid, "", 0}, nil
SentFallthrough(uid) ==
    [Entered(uid) EXCEPT !.paths = {"listener"}]

Sent(uid) ==
    [Entered(uid) EXCEPT !.pc = "done", !.paths = {"listener"},
                         !.res = MkResult("UnknownCard", uid, "", 0)]

\* the step of caller p that leaves its invocation as `call`: a call at
\* "done" has returned
Step(p, call) ==
    IF call.pc = "done"
    THEN /\ hc' = [hc EXCEPT ![p] = Idle]
         /\ ret' = call
    ELSE /\ hc' = [hc EXCEPT ![p] = call]
         /\ UNCHANGED ret

\* select, case k.card <- uid: a listener is receiving and takes the uid
HCSelectSend(p, uid, l) ==
    /\ hc[p].pc = "idle"
    /\ l \in Receivers
    /\ ls' = [ls EXCEPT ![l].pc = "received", ![l].uid = uid,
                         ![l].got = Append(@, uid)]
    /\ Step(p, Sent(uid))
    /\ UNCHANGED <<tables, transactions, registration, committed, topups>>

HCSelectBlocks(p, uid) ==
    /\ hc[p].pc = "idle"
    /\ FALSE
    /\ UNCHANGED <<tables, transactions, registration, hc, ret, ls, committed, topups>>

\* select, default: nobody is receiving
HCSelectDefault(p, uid) ==
    /\ hc[p].pc = "idle"
    /\ Receivers = {}
    /\ Step(p, Entered(uid))
    /\ UNCHANGED <<tables, transactions, registration, ls, committed, topups>>

\* k.db.Beginx() and the lookup of the card's owner
HCLookup(p) ==
    /\ hc[p].pc = "lookup"
    /\ LET me == [hc[p] EXCEPT !.paths = @ \cup {"ledger"}]
           owner == SelectCardOwner(me.uid)
           notFound == [me EXCEPT !.pc = "done", !.err = "ErrCardNotFound",
                                  !.res = MkResult("UnknownCard", me.uid, "", 0)]
       IN  \/ \* Beginx fails
              Step(p, [me EXCEPT !.pc = "done", !.res = NilResult,
                                 !.err = "BeginError", !.fault = "begin"])
           \/ \* tx.Get fails: no row
              /\ owner = {}
              /\ Step(p, notFound)
           \/ \* tx.Get fails: the query itself fails
              /\ owner # {}
              /\ Step(p, [notFound EXCEPT !.fault = "query"])
           \/ /\ owner # {}
              /\ Step(p, [me EXCEPT !.pc = "balance",
                                    !.user = CHOOSE u \in owner : TRUE])
    /\ UNCHANGED <<tables, transactions, registration, ls, committed, topups>>

\* the balance query, the Result and the balance < 100 check
HCBalanceChargesFirst(p) ==
    /\ hc[p].pc = "balance"
    /\ LET me == hc[p]
           b == SelectSum(transactions, me.user.ID)
           balance == IF b.Valid THEN b.Int64 ELSE 0
           res == MkResult("", me.uid, me.user.Name, AccountOf(balance))
           read == [me EXCEPT !.balance = balance, !.res = res,
                              !.sumAtRead = committed[me.user.ID]]
           row == SwipeRow(me.user, me.uid)
       IN  \/ /\ Step(p, [me EXCEPT !.pc = "done", !.res = NilResult,
                                    !.err = "QueryError", !.fault = "query"])
              /\ UNCHANGED <<transactions, committed>>
           \/ /\ IsEmpty(balance)
              /\ Len(transactions) < MaxTx
              /\ transactions' = Append(transactions, row)
              /\ committed' = [committed EXCEPT ![row.User] = @ + row.Amount]
              /\ Step(p, [read EXCEPT !.pc = "done", !.res.Code = "AccountEmpty",
                                      !.err = "nil", !.appended = @ + 1])
           \/ /\ ~IsEmpty(balance)
              /\ Step(p, [read EXCEPT !.pc = "commit"])
              /\ UNCHANGED <<transactions, committed>>
    /\ UNCHANGED <<tables, registration, ls, topups>>

HCBalance(p) ==
    /\ hc[p].pc = "balance"
    /\ LET me == hc[p]
           b == SelectSum(transactions, me.user.ID)
           balance == IF b.Valid THEN b.Int64 ELSE 0
           res == MkResult("", me.uid, me.user.Name, AccountOf(balance))
           read == [me EXCEPT !.balance = balance, !.res = res,
                              !.sumAtRead = committed[me.user.ID]]
       IN  \/ \* tx.Get fails
              Step(p, [me EXCEPT !.pc = "done", !.res = NilResult,
                                 !.err = "QueryError", !.fault = "query"])
           \/ /\ IsEmpty(balance)
              /\ Step(p, [read EXCEPT !.pc = "done", !.res.Code = "AccountEmpty",
                                      !.err = "nil"])
           \/ /\ ~IsEmpty(balance)
              /\ Step(p, [read EXCEPT !.pc = "commit"])
    /\ UNCHANGED <<tables, transactions, registration, ls, committed, topups>>

\* the store is SQLite (the only driver linked in): a transaction that has
\* read holds a shared lock on the database until it ends, and a commit
\* gets the exclusive lock only when no other transaction holds a lock;
\* otherwise the INSERT or the Commit fails as busy
OpenTx ==
    { q \in Callers : hc[q].pc \in {"balance", "commit"} }
        \cup { r \in Requests : reqs[r].pc = "write" }

NoIsolation(p) == TRUE

CanCommit(p) == OpenTx \subseteq {p}

HCCommitKeepsRow(p) ==
    /\ hc[p].pc = "commit"
    /\ LET me == hc[p]
           row == SwipeRow(me.user, me.uid)
       IN  \/ /\ Step(p, [me EXCEPT !.pc = "done", !.res = NilResult,
                                    !.err = "InsertError", !.fault = "insert"])
              /\ UNCHANGED <<transactions, committed>>
           \/ /\ Len(transactions) < MaxTx
              /\ transactions' = Append(transactions, row)
              /\ committed' = [committed EXCEPT ![row.User] = @ + row.Amount]
              /\ Step(p, [me EXCEPT !.pc = "done", !.res = NilResult,
                                    !.err = "CommitError", !.fault = "commit"])
           \/ /\ Len(transactions) < MaxTx
              /\ CanCommit(p)
              /\ transactions' = Append(transactions, row)
              /\ committed' = [committed EXCEPT ![row.User] = @ + row.Amount]
              /\ Step(p, [me EXCEPT !.pc = "done",
                                    !.res.Code = Classify(me.balance),
                                    !.err = "nil", !.appended = @ + 1])
    /\ UNCHANGED <<tables, registration, ls, topups>>

\* the INSERT, the Commit and the classification
HCCommit(p) ==
    /\ hc[p].pc = "commit"
    /\ LET me == hc[p]
           row == SwipeRow(me.user, me.uid)
       IN  \/ \* tx.Exec fails; the deferred Rollback drops the unit
              /\ Step(p, [me EXCEPT !.pc = "done", !.res = NilResult,
                                    !.err = "InsertError", !.fault = "insert"])
              /\ UNCHANGED <<transactions, committed>>
           \/ \* tx.Commit fails
              /\ Step(p, [me EXCEPT !.pc = "done", !.res = NilResult,
                                    !.err = "CommitError", !.fault = "commit"])
              /\ UNCHANGED <<transactions, committed>>
           \/ /\ Len(transactions) < MaxTx
              /\ CanCommit(p)
              /\ transactions' = Append(transactions, row)
              /\ committed' = [committed EXCEPT ![row.User] = @ + row.Amount]
              /\ Step(p, [me EXCEPT !.pc = "done",
                                    !.res.Code = Classify(me.balance),
                                    !.err = "nil", !.appended = @ + 1])
    /\ UNCHANGED <<tables, registration, ls, topups>>

(* ------------------------------------------------------------ top-ups *)
\* k.AddBalance(user, deposit): one positive row without a card
AddBalance(u, amount) ==
    /\ topups < MaxTopUps
    /\ Len(transactions) < MaxTx
    /\ CanCommit("AddBalance")
    /\ transactions' = Append(transactions, TopUpRow(u, amount))
    /\ committed' = [committed EXCEPT ![u] = @ + amount]
    /\ topups' = topups + 1
    /\ UNCHANGED <<tables, registration, hc, ret, ls>>

(* ------------------------------------------- AddCardEvent (http.go) *)
\* k.registration.Lock() can return
AlwaysFree == TRUE

LockFree == registration = ""

\* the request passed the session check and calls Lock()
ACERequest(l) ==
    /\ ls[l].pc = "idle"
    /\ ls' = [ls EXCEPT ![l] = [NotListening EXCEPT !.pc = "lockwait"]]
    /\ UNCHANGED <<tables, transactions, registration, hc, ret, committed, topups>>

\* Lock() returns; "event: lock" is written to the client
ACELock(l) ==
    /\ ls[l].pc = "lockwait"
    /\ LockFree
    /\ registration' = l
    /\ ls' = [ls EXCEPT ![l].pc = "locked"]
    /\ UNCHANGED <<tables, transactions, hc, ret, committed, topups>>

\* the listener enters the select and parks on k.card
ACEWait(l) ==
    /\ ls[l].pc = "locked"
    /\ ls' = [ls EXCEPT ![l].pc = "waiting"]
    /\ UNCHANGED <<tables, transactions, registration, hc, ret, committed, topups>>

\* case <-ctx.Done(): the minute is over or the client went away
ACEDone(l) ==
    /\ ls[l].pc = "waiting"
    /\ ls' = [ls EXCEPT ![l].pc = "expired"]
    /\ UNCHANGED <<tables, transactions, registration, hc, ret, committed, topups>>

ACEReturnKeepsLock(l) ==
    /\ ls[l].pc = "expired"
    /\ ls' = [ls EXCEPT ![l].pc = "idle"]
    /\ UNCHANGED <<tables, transactions, registration, hc, ret, committed, topups>>

\* http.Error, return; the deferred Unlock runs
ACEReturn(l) ==
    /\ ls[l].pc = "expired"
    /\ registration' = ""
    /\ ls' = [ls EXCEPT ![l].pc = "idle"]
    /\ UNCHANGED <<tables, transactions, hc, ret, committed, topups>>

ACEReportKeepsLock(l) ==
    /\ ls[l].pc = "received"
    /\ ls' = [ls EXCEPT ![l].pc = "idle",
                         ![l].reported = EncodeToString(Bytes(ls[l].uid))]
    /\ UNCHANGED <<tables, transactions, registration, hc, ret, committed, topups>>

\* the uid is written to the client; the deferred Unlock runs
ACEReport(l) ==
    /\ ls[l].pc = "received"
    /\ registration' = ""
    /\ ls' = [ls EXCEPT ![l].pc = "idle",
                         ![l].reported = EncodeToString(Bytes(ls[l].uid))]
    /\ UNCHANGED <<tables, transactions, hc, ret, committed, topups>>

(* ------------------------------------------------------ specification *)
\* the steps of the given callers and listeners, for swipes of the given
\* identifiers and top-ups of the given users
NextOf(callers, listeners, uids, payers) ==
    \/ \E p \in callers, uid \in uids, l \in listeners :
          HCSelectSend(p, uid, l) /\ UNCHANGED <<winvars, run, rdvars, auxvars>>
    \/ \E p \in callers, uid \in uids :
          HCSelectDefault(p, uid) /\ UNCHANGED <<winvars, run, rdvars, auxvars>>
    \/ \E p \in callers : HCLookup(p) /\ UNCHANGED <<winvars, run, rdvars, auxvars>>
    \/ \E p \in callers : HCBalance(p) /\ UNCHANGED <<winvars, run, rdvars, auxvars>>
    \/ \E p \in callers : HCCommit(p) /\ UNCHANGED <<winvars, run, rdvars, auxvars>>
    \/ \E u \in payers, amount \in TopUpAmounts :
          AddBalance(u, amount) /\ UNCHANGED <<winvars, run, rdvars, auxvars>>
    \/ \E l \in listeners : ACERequest(l) /\ UNCHANGED <<winvars, run, rdvars, auxvars>>
    \/ \E l \in listeners : ACELock(l) /\ UNCHANGED <<winvars, run, rdvars, auxvars>>
    \/ \E l \in listeners : ACEWait(l) /\ UNCHANGED <<winvars, run, rdvars, auxvars>>
    \/ \E l \in listeners : ACEDone(l) /\ UNCHANGED <<winvars, run, rdvars, auxvars>>
    \/ \E l \in listeners : ACEReturn(l) /\ UNCHANGED <<winvars, run, rdvars, auxvars>>
    \/ \E l \in listeners : ACEReport(l) /\ UNCHANGED <<winvars, run, rdvars, auxvars>>

\* one swipe at a time, one registration request at a time, any ledger
Next == NextOf({"hw"}, {"l1"}, UIDs, {1, 2})

Spec == Init /\ [][Next]_vars

\* concurrent swipes and concurrent registration requests
InitReg == InitFrom({100})

NextReg == NextOf(Callers, Listeners, {"aaaa", "foobar"}, {1})

SpecReg == InitReg /\ [][NextReg]_vars

\* concurrent swipes of the cards of both users and of an unbound card,
\* with top-ups of user 2
InitBoth == InitFrom({599})

NextBoth == NextOf(Callers, {"l1"}, {"aaaa", "baaa", "foobar"}, {2})

SpecBoth == InitBoth /\ [][NextBoth]_vars

(* ----------------------------------------------- registration windows *)
\* the steps of AddCardEvent and HandleCard with the histories of queueing,
\* expiry and exit
WinRequest(l) ==
    /\ ACERequest(l)
    /\ queued' = IF registration = "" THEN queued \ {l} ELSE queued \cup {l}
    /\ UNCHANGED <<lapsed, exits, run, rdvars, auxvars>>

WinLock(l) == ACELock(l) /\ UNCHANGED <<winvars, run, rdvars, auxvars>>

WinWait(l) == ACEWait(l) /\ UNCHANGED <<winvars, run, rdvars, auxvars>>

WinDone(l) ==
    /\ ACEDone(l)
    /\ lapsed' = "expired"
    /\ UNCHANGED <<queued, exits, run, rdvars, auxvars>>

WinReturn(l) ==
    /\ ACEReturn(l)
    /\ exits' = exits \cup {"timeout"}
    /\ UNCHANGED <<queued, lapsed, run, rdvars, auxvars>>

WinReport(l) ==
    /\ ACEReport(l)
    /\ exits' = exits \cup {"card"}
    /\ UNCHANGED <<queued, lapsed, run, rdvars, auxvars>>

WinSend(p, uid, l) == HCSelectSend(p, uid, l) /\ UNCHANGED <<winvars, run, rdvars, auxvars>>

WinDefault(p, uid) ==
    /\ HCSelectDefault(p, uid)
    /\ lapsed' = IF lapsed = "expired" THEN "reverted" ELSE lapsed
    /\ UNCHANGED <<queued, exits, run, rdvars, auxvars>>

WinLedger(p) ==
    /\ HCLookup(p) \/ HCBalance(p) \/ HCCommit(p)
    /\ UNCHANGED <<winvars, run, rdvars, auxvars>>

WinUIDs == {"aaaa", "foobar"}

InitWin == InitFrom({100})

NextWin ==
    \/ \E l \in Listeners : WinRequest(l)
    \/ \E l \in Listeners : WinLock(l)
    \/ \E l \in Listeners : WinWait(l)
    \/ \E l \in Listeners : WinDone(l)
    \/ \E l \in Listeners : WinReturn(l)
    \/ \E l \in Listeners : WinReport(l)
    \/ \E uid \in WinUIDs, l \in Listeners : WinSend("hw", uid, l)
    \/ \E uid \in WinUIDs : WinDefault("hw", uid)
    \/ WinLedger("hw")

SpecWin == InitWin /\ [][NextWin]_vars

\* the goroutine of a request keeps running: it reaches the select, its
\* context is done after a minute at the latest, and it returns; Lock() is
\* starvation-free (sync.Mutex hands the lock to a waiter that has waited
\* long), so a waiter that could lock again and again does lock
FairWin ==
    \A l \in Listeners :
        /\ WF_vars(WinWait(l))
        /\ WF_vars(WinDone(l))
        /\ WF_vars(WinReturn(l))
        /\ WF_vars(WinReport(l))
        /\ SF_vars(WinLock(l))

SpecWinFair == SpecWin /\ FairWin

(* ------------------------------------------------- successive swipes *)
\* the hardware loop swipes the two cards of user 1 in any order, with
\* top-ups of user 1 in between; run follows the swipes since the last top-up
RunUIDs == {"aaaa", "aaab"}

RunSeeds == {99, 199, 599}

RunDefault(uid) ==
    /\ run.n < MaxSwipes
    /\ HCSelectDefault("hw", uid)
    /\ UNCHANGED <<winvars, run, rdvars, auxvars>>

\* a swipe that returns without a storage failure counts for its user
RunLedger ==
    /\ HCLookup("hw") \/ HCBalance("hw") \/ HCCommit("hw")
    /\ run' = IF hc'["hw"].pc = "idle" /\ ret'.fault = "" /\ ret'.user.ID = 1
                 THEN [run EXCEPT !.n = @ + 1, !.d = @ + ret'.appended]
                 ELSE run
    /\ UNCHANGED <<winvars, rdvars, auxvars>>

RunTopUp(amount) ==
    /\ AddBalance(1, amount)
    /\ run' = [B |-> committed'[1], n |-> 0, d |-> 0]
    /\ UNCHANGED <<winvars, rdvars, auxvars>>

InitRun == InitFrom(RunSeeds)

NextRun ==
    \/ \E uid \in RunUIDs : RunDefault(uid)
    \/ RunLedger
    \/ \E amount \in TopUpAmounts : RunTopUp(amount)

SpecRun == InitRun /\ [][NextRun]_vars

(* ------------------------------------------------ reader and main loop *)
Target(type, uid) == [Type |-> type, UID |-> uid]

\* what is laid on the reader: one card, a card of another type, two cards
Presentations ==
    { <<Target("ISO14443a", "aaaa")>>,
      <<Target("Felica", "baaa")>>,
      <<Target("ISO14443a", "foobar"), Target("ISO14443a", "aaaa")>> }

pollNFCFailsOnClash(targets, failed) ==
    IF failed THEN [UID |-> "", Err |-> "device"]
    ELSE IF Len(targets) = 0 THEN NoEvent
    ELSE IF Len(targets) # 1 THEN [UID |-> "", Err |-> "card clash"]
    ELSE IF Head(targets).Type # "ISO14443a"
         THEN [UID |-> "", Err |-> "unsupported card type"]
         ELSE [UID |-> Head(targets).UID, Err |-> "nil"]

\* pollNFC: the device fails, or lists nothing, or the first target counts
pollNFC(targets, failed) ==
    IF failed THEN [UID |-> "", Err |-> "device"]
    ELSE IF Len(targets) = 0 THEN NoEvent
    ELSE IF Head(targets).Type # "ISO14443a"
         THEN [UID |-> "", Err |-> "unsupported card type"]
         ELSE [UID |-> Head(targets).UID, Err |-> "nil"]

\* a card is laid on the empty reader
Present(targets) ==
    /\ field = <<>>
    /\ field' = targets
    /\ pres' = [seen |-> 0, events |-> 0]
    /\ UNCHANGED <<users, cards, transactions, registration, hc, ret, ls, committed,
                   topups, winvars, run, auxvars, poller, mainloop, scanned, taken, begun, logged>>

\* the card is taken away
Remove ==
    /\ field # <<>>
    /\ field' = <<>>
    /\ UNCHANGED <<users, cards, transactions, registration, hc, ret, ls, committed,
                   topups, winvars, run, auxvars, poller, mainloop, scanned, taken, begun, logged,
                   pres>>

\* one scan: nothing found, so sleep; otherwise go and send the event
Poll(failed) ==
    /\ poller.pc = "poll"
    /\ LET ev == pollNFC(field, failed)
           saw == ~failed /\ field # <<>>
       IN  IF ev = NoEvent
           THEN /\ poller' = [pc |-> "sleep", ev |-> NoEvent]
                /\ UNCHANGED <<scanned, pres>>
           ELSE /\ Len(scanned) < MaxScans
                /\ poller' = [pc |-> "send", ev |-> ev]
                /\ scanned' = Append(scanned, ev)
                /\ pres' = IF saw
                             THEN [seen |-> pres.seen + 1,
                                   events |-> pres.events + (IF ev.Err = "nil" THEN 1 ELSE 0)]
                             ELSE pres
    /\ UNCHANGED <<users, cards, transactions, registration, hc, ret, ls, committed,
                   topups, winvars, run, auxvars, field, mainloop, taken, begun, logged>>

\* time.Sleep(PollingInterval) is over
PollWake ==
    /\ poller.pc = "sleep"
    /\ poller' = [pc |-> "poll", ev |-> NoEvent]
    /\ UNCHANGED <<users, cards, transactions, registration, hc, ret, ls, committed,
                   topups, winvars, run, auxvars, field, mainloop, scanned, taken, begun, logged,
                   pres>>

HandoffOrDrop ==
    /\ poller.pc = "send"
    /\ poller' = [pc |-> "poll", ev |-> NoEvent]
    /\ IF mainloop.pc = "recv"
       THEN /\ mainloop' = [pc |-> "got", ev |-> poller.ev]
            /\ taken' = Append(taken, poller.ev)
       ELSE UNCHANGED <<mainloop, taken>>
    /\ UNCHANGED <<users, cards, transactions, registration, hc, ret, ls, committed,
                   topups, winvars, run, auxvars, field, scanned, begun, logged, pres>>

\* ch <- NFCEvent{uid, err} meets ev := <-events: the channel has no buffer
Handoff ==
    /\ poller.pc = "send"
    /\ mainloop.pc = "recv"
    /\ poller' = [pc |-> "poll", ev |-> NoEvent]
    /\ mainloop' = [pc |-> "got", ev |-> poller.ev]
    /\ taken' = Append(taken, poller.ev)
    /\ UNCHANGED <<users, cards, transactions, registration, hc, ret, ls, committed,
                   topups, winvars, run, auxvars, field, scanned, begun, logged, pres>>

\* if ev.Err != nil { log.Println(ev.Err); continue }
MainLogErr ==
    /\ mainloop.pc = "got"
    /\ mainloop.ev.Err # "nil"
    /\ logged' = logged + 1
    /\ mainloop' = [pc |-> "recv", ev |-> NoEvent]
    /\ UNCHANGED <<users, cards, transactions, registration, hc, ret, ls, committed,
                   topups, winvars, run, auxvars, field, poller, scanned, taken, begun, pres>>

\* k.HandleCard(ev.UID) hands the uid to a waiting listener and returns
MainCallSend(l) ==
    /\ mainloop.pc = "got"
    /\ mainloop.ev.Err = "nil"
    /\ HCSelectSend("hw", mainloop.ev.UID, l)
    /\ begun' = Append(begun, mainloop.ev.UID)
    /\ mainloop' = [mainloop EXCEPT !.pc = "print"]
    /\ UNCHANGED <<winvars, run, auxvars, field, poller, scanned, taken, logged, pres>>

MainCallDefaultAsync ==
    /\ mainloop.pc = "got"
    /\ mainloop.ev.Err = "nil"
    /\ HCSelectDefault("hw", mainloop.ev.UID)
    /\ begun' = Append(begun, mainloop.ev.UID)
    /\ mainloop' = [pc |-> "recv", ev |-> NoEvent]
    /\ UNCHANGED <<winvars, run, auxvars, field, poller, scanned, taken, logged, pres>>

\* k.HandleCard(ev.UID) finds no listener and goes on to the ledger
MainCallDefault ==
    /\ mainloop.pc = "got"
    /\ mainloop.ev.Err = "nil"
    /\ HCSelectDefault("hw", mainloop.ev.UID)
    /\ begun' = Append(begun, mainloop.ev.UID)
    /\ mainloop' = [mainloop EXCEPT !.pc = "incall"]
    /\ UNCHANGED <<winvars, run, auxvars, field, poller, scanned, taken, logged, pres>>

\* the loop is inside HandleCard until it returns
MainLedger ==
    /\ mainloop.pc = "incall"
    /\ HCLookup("hw") \/ HCBalance("hw") \/ HCCommit("hw")
    /\ mainloop' = [mainloop EXCEPT !.pc = IF hc'["hw"].pc = "idle" THEN "print" ELSE "incall"]
    /\ UNCHANGED <<winvars, run, auxvars, field, poller, scanned, taken, begun, logged, pres>>

\* res.Print(lcd) or flashLCD(lcd, err.Error(), ...), then the next round
MainPrint ==
    /\ mainloop.pc = "print"
    /\ mainloop' = [pc |-> "recv", ev |-> NoEvent]
    /\ UNCHANGED <<users, cards, transactions, registration, hc, ret, ls, committed,
                   topups, winvars, run, auxvars, field, poller, scanned, taken, begun, logged,
                   pres>>

\* a registration request of the web interface runs beside the loop
RdWindow(l) ==
    /\ \/ ACERequest(l) \/ ACELock(l) \/ ACEWait(l)
       \/ ACEDone(l) \/ ACEReturn(l) \/ ACEReport(l)
    /\ UNCHANGED <<winvars, run, rdvars, auxvars>>

InitRd == InitFrom({599})

NextRd ==
    \/ \E targets \in Presentations : Present(targets)
    \/ Remove
    \/ \E failed \in BOOLEAN : Poll(failed)
    \/ PollWake
    \/ Handoff
    \/ MainLogErr
    \/ MainCallSend("l1")
    \/ MainCallDefault
    \/ MainLedger
    \/ MainPrint
    \/ RdWindow("l1")

SpecRd == InitRd /\ [][NextRd]_vars

\* one card is laid on the reader and stays; the device may fail
NextLoop ==
    \/ Present(<<Target("ISO14443a", "aaaa")>>)
    \/ \E failed \in BOOLEAN : Poll(failed)
    \/ PollWake
    \/ Handoff
    \/ MainLogErr
    \/ MainCallSend("l1")
    \/ MainCallDefault
    \/ MainLedger
    \/ MainPrint
    \/ RdWindow("l1")

\* the goroutine of main() keeps running: its select has a default case, so
\* one of its cases can always be taken, and the storage calls, the log and
\* the display return
FairLoop ==
    /\ WF_vars(MainLogErr \/ MainCallSend("l1") \/ MainCallDefault)
    /\ WF_vars(MainLedger)
    /\ WF_vars(MainPrint)

SpecLoop == InitRd /\ [][NextLoop]_vars /\ FairLoop

(* ------------------------------------------------------------ nfcReader *)
ClosedErr == [UID |-> "", Err |-> "reader is closed"]

\* what one round of startPolling has to send for the targets listed: the
\* uid of each, up to and with the error for the first of another type
RECURSIVE RoundOf(_)
RoundOf(targets) ==
    IF targets = <<>> THEN <<>>
    ELSE IF Head(targets).Type # "ISO14443a"
         THEN <<[UID |-> "", Err |-> "unsupported card type"]>>
         ELSE <<[UID |-> Head(targets).UID, Err |-> "nil"]>> \o RoundOf(Tail(targets))

\* a send of the poller meets the receive of GetNextUID, which returns the
\* item; after an error the poller returns, after the last uid of the round
\* it goes to the timer
Deliver(reader) ==
    LET item == Head(reader.sp.queue)
        rest == Tail(reader.sp.queue)
    IN  [reader EXCEPT
            !.gn = "idle",
            !.results = Append(@, [UID |-> item.UID, Err |-> item.Err,
                                   closed |-> reader.closed]),
            !.sp = IF item.Err # "nil" THEN [pc |-> "stopped", queue |-> <<>>]
                   ELSE IF rest = <<>> THEN [pc |-> "timer", queue |-> <<>>]
                   ELSE [pc |-> "select", queue |-> rest]]

\* InitiatorListPassiveTargets returns
NfcScan(failed) ==
    /\ nr.sp.pc = "scan"
    /\ LET queue == IF failed THEN <<[UID |-> "", Err |-> "device"]>> ELSE RoundOf(field)
       IN  nr' = [nr EXCEPT !.sp = [pc |-> IF queue = <<>> THEN "timer" ELSE "select",
                                    queue |-> queue]]
    /\ UNCHANGED <<corevars, winvars, run, rdvars, txq, adm, reqs>>

NfcSelectWithoutDone ==
    /\ nr.sp.pc = "select"
    /\ \/ /\ nr.gn = "parked"
          /\ nr' = Deliver(nr)
       \/ /\ nr.gn # "parked"
          /\ nr' = [nr EXCEPT !.sp.pc = "send"]
    /\ UNCHANGED <<corevars, winvars, run, rdvars, txq, adm, reqs>>

\* the poller enters a select that sends: of the cases that can proceed one
\* is taken, and with none it parks
NfcSelect ==
    /\ nr.sp.pc = "select"
    /\ \/ /\ nr.closed
          /\ nr' = [nr EXCEPT !.sp = [pc |-> "stopped", queue |-> <<>>]]
       \/ /\ nr.gn = "parked"
          /\ nr' = Deliver(nr)
       \/ /\ ~nr.closed
          /\ nr.gn # "parked"
          /\ nr' = [nr EXCEPT !.sp.pc = "send"]
    /\ UNCHANGED <<corevars, winvars, run, rdvars, txq, adm, reqs>>

\* the poller enters the select on time.After(PollingInterval)
NfcTimer ==
    /\ nr.sp.pc = "timer"
    /\ nr' = [nr EXCEPT !.sp.pc = IF nr.closed THEN "stopped" ELSE "sleep"]
    /\ UNCHANGED <<corevars, winvars, run, rdvars, txq, adm, reqs>>

\* the polling interval is over
NfcWake ==
    /\ nr.sp.pc = "sleep"
    /\ nr' = [nr EXCEPT !.sp.pc = "scan"]
    /\ UNCHANGED <<corevars, winvars, run, rdvars, txq, adm, reqs>>

\* GetNextUID enters its select
GetNextUID ==
    /\ nr.gn = "idle"
    /\ Len(nr.results) < MaxCalls
    /\ \/ /\ nr.closed
          /\ nr' = [nr EXCEPT !.results = Append(@, [UID |-> ClosedErr.UID,
                                                      Err |-> ClosedErr.Err,
                                                      closed |-> TRUE])]
       \/ /\ nr.sp.pc = "send"
          /\ nr' = Deliver(nr)
       \/ /\ ~nr.closed
          /\ nr.sp.pc # "send"
          /\ nr' = [nr EXCEPT !.gn = "parked"]
    /\ UNCHANGED <<corevars, winvars, run, rdvars, txq, adm, reqs>>

CloseWakesNobody ==
    /\ ~nr.closed
    /\ nr' = [nr EXCEPT !.closed = TRUE]
    /\ UNCHANGED <<corevars, winvars, run, rdvars, txq, adm, reqs>>

\* Close: n.cancel() closes the Done channel, which fires the select of
\* every goroutine parked on it
Close ==
    /\ ~nr.closed
    /\ nr' = [nr EXCEPT
                 !.closed = TRUE,
                 !.woke = nr.gn = "parked",
                 !.gn = "idle",
                 !.results = IF nr.gn = "parked"
                             THEN Append(@, [UID |-> ClosedErr.UID, Err |-> ClosedErr.Err,
                                             closed |-> TRUE])
                             ELSE @,
                 !.sp = IF nr.sp.pc \in {"send", "sleep"}
                        THEN [pc |-> "stopped", queue |-> <<>>]
                        ELSE @]
    /\ UNCHANGED <<corevars, winvars, run, rdvars, txq, adm, reqs>>

InitNfc == InitFrom({100})

NextNfc ==
    \/ \E targets \in Presentations : Present(targets)
    \/ Remove
    \/ \E failed \in BOOLEAN : NfcScan(failed)
    \/ NfcSelect
    \/ NfcTimer
    \/ NfcWake
    \/ GetNextUID
    \/ Close

SpecNfc == InitNfc /\ [][NextNfc]_vars

\* the polling goroutine keeps running: the device call returns, and a
\* select it enters takes a case that is ready
FairNfc ==
    /\ WF_vars(\E failed \in BOOLEAN : NfcScan(failed))
    /\ WF_vars(NfcSelect)
    /\ WF_vars(NfcTimer)

SpecNfcFair == SpecNfc /\ FairNfc

(* ------------------------------------------------------ GetTransactions *)
\* a transactions table with the time column: time.Now() of the INSERT is
\* whatever the wall clock showed, so times may repeat and need not grow
TxTimes == 1..3

\* a swipe row of a card of the user, as HandleCard inserts it
TimedRow(u, time) ==
    [User |-> u, Card |-> IF u = 1 THEN "aaaa" ELSE "baaa", Amount |-> 0 - Charge,
     Kind |-> "Kartenswipe", Time |-> time]

TimedRows == { TimedRow(u, time) : u \in {1, 2}, time \in TxTimes }

TimedTables == UNION { [1..len -> TimedRows] : len \in 0..MaxTx }

SortedAsc(rows) == \A i \in 1..(Len(rows) - 1) : rows[i].Time <= rows[i + 1].Time

SortedDesc(rows) == \A i \in 1..(Len(rows) - 1) : rows[i].Time >= rows[i + 1].Time

\* the orders in which the store may return the rows
Orderings(rows) ==
    { [i \in 1..Len(rows) |-> rows[perm[i]]] : perm \in Permutations(1..Len(rows)) }

OrderByTimeAsc(rows) == { ordered \in Orderings(rows) : SortedAsc(ordered) }

\* ORDER BY time DESC: rows of equal time come in any order
OrderByTimeDesc(rows) == { ordered \in Orderings(rows) : SortedDesc(ordered) }

\* LIMIT n
Limit(rows, n) == SubSeq(rows, 1, IF n < Len(rows) THEN n ELSE Len(rows))

QueryLimits == {0 - 1, 0, 1, 2}

GetTransactions(u, n) ==
    /\ LET all == OrderByTimeDesc(RowsOf(transactions, u))
           outs == IF n <= 0 THEN all ELSE { Limit(ordered, n) : ordered \in all }
       IN  \/ \* k.db.Select fails
              txq' = [user |-> u, n |-> n, out |-> <<>>, err |-> "QueryError"]
           \/ \E out \in outs : txq' = [user |-> u, n |-> n, out |-> out, err |-> "nil"]
    /\ UNCHANGED <<corevars, winvars, run, rdvars, nr, adm, reqs>>

InitTx ==
    /\ users = { [ID |-> 1, Name |-> "Merovius"], [ID |-> 2, Name |-> "Koebi"] }
    /\ cards = { [ID |-> "aaaa", User |-> 1, Description |-> ""], [ID |-> "aaab", User |-> 1, Description |-> ""],
                 [ID |-> "baaa", User |-> 2, Description |-> ""] }
    /\ transactions \in TimedTables
    /\ committed = [u \in {1, 2} |-> SumAmounts(RowsOf(transactions, u))]
    /\ registration = ""
    /\ hc = [p \in Callers |-> Idle]
    /\ ret = NoReturn
    /\ ls = [l \in Listeners |-> NotListening]
    /\ topups = 0
    /\ queued = {}
    /\ lapsed = "none"
    /\ exits = {}
    /\ run = [B |-> committed[1], n |-> 0, d |-> 0]
    /\ field = <<>>
    /\ poller = [pc |-> "poll", ev |-> NoEvent]
    /\ mainloop = [pc |-> "recv", ev |-> NoEvent]
    /\ scanned = <<>>
    /\ taken = <<>>
    /\ begun = <<>>
    /\ logged = 0
    /\ pres = [seen |-> 0, events |-> 0]
    /\ nr = [closed |-> FALSE, sp |-> [pc |-> "scan", queue |-> <<>>], gn |-> "idle",
             results |-> <<>>, woke |-> FALSE]
    /\ txq = NoQuery
    /\ adm = NoCall
    /\ reqs = [r \in Requests |-> NoRequest]

NextTx == \E u \in {1, 2}, n \in QueryLimits : GetTransactions(u, n)

SpecTx == InitTx /\ [][NextTx]_vars

(* ------------------------------------------------------ users and cards *)
\* RegisterUser, AddCard, RemoveCard and UpdateCard each run in one
\* transaction of the store, which serializes them; a call is one step. A
\* storage failure (Beginx, bcrypt, a query, the statement, the Commit) ends
\* the call with that error and the deferred Rollback
Returned(op, args, res, err, fault) ==
    [op |-> op, args |-> args, res |-> res, err |-> err, fault |-> fault,
     tick |-> ~adm.tick]

Names == {"Merovius", "Ada"}

AdmUIDs == {"aaaa", "baab"}

Descriptions == {"", "Schluessel"}

\* the rowid the store gives the next user
NextUserID == 1 + CHOOSE m \in { u.ID : u \in users } : \A u \in users : u.ID <= m

RegisterUserUnchecked(name) ==
    /\ \/ /\ adm' = Returned("RegisterUser", <<name>>, <<>>, "StoreError", TRUE)
          /\ UNCHANGED users
       \/ /\ Cardinality(users) < MaxUsers
          /\ CanCommit("RegisterUser")
          /\ LET user == [ID |-> NextUserID, Name |-> name]
             IN  /\ users' = users \cup {user}
                 /\ adm' = Returned("RegisterUser", <<name>>, <<user>>, "nil", FALSE)
    /\ UNCHANGED <<cards, transactions, registration, hc, ret, ls, committed, topups,
                   winvars, run, rdvars, nr, txq, reqs>>

RegisterUser(name) ==
    /\ \/ /\ adm' = Returned("RegisterUser", <<name>>, <<>>, "StoreError", TRUE)
          /\ UNCHANGED users
       \/ /\ \E u \in users : u.Name = name
          /\ adm' = Returned("RegisterUser", <<name>>, <<>>, "ErrUserExists", FALSE)
          /\ UNCHANGED users
       \/ /\ \A u \in users : u.Name # name
          /\ Cardinality(users) < MaxUsers
          /\ CanCommit("RegisterUser")
          /\ LET user == [ID |-> NextUserID, Name |-> name]
             IN  /\ users' = users \cup {user}
                 /\ adm' = Returned("RegisterUser", <<name>>, <<user>>, "nil", FALSE)
    /\ UNCHANGED <<cards, transactions, registration, hc, ret, ls, committed, topups,
                   winvars, run, rdvars, nr, txq, reqs>>

AddCardRebinds(uid, owner, description) ==
    /\ \/ /\ adm' = Returned("AddCard", <<uid, owner, description>>, <<>>, "StoreError", TRUE)
          /\ UNCHANGED cards
       \/ /\ CanCommit("AddCard")
          /\ cards' = { c \in cards : c.ID # uid }
                          \cup {[ID |-> uid, User |-> owner, Description |-> description]}
          /\ adm' = Returned("AddCard", <<uid, owner, description>>,
                             <<[ID |-> uid, User |-> owner]>>, "nil", FALSE)
    /\ UNCHANGED <<users, transactions, registration, hc, ret, ls, committed, topups,
                   winvars, run, rdvars, nr, txq, reqs>>

AddCard(uid, owner, description) ==
    /\ \/ /\ adm' = Returned("AddCard", <<uid, owner, description>>, <<>>, "StoreError", TRUE)
          /\ UNCHANGED cards
       \/ /\ \E c \in cards : c.ID = uid
          /\ adm' = Returned("AddCard", <<uid, owner, description>>, <<>>, "ErrCardExists", FALSE)
          /\ UNCHANGED cards
       \/ /\ \A c \in cards : c.ID # uid
          /\ CanCommit("AddCard")
          /\ cards' = cards \cup {[ID |-> uid, User |-> owner, Description |-> description]}
          /\ adm' = Returned("AddCard", <<uid, owner, description>>,
                             <<[ID |-> uid, User |-> owner]>>, "nil", FALSE)
    /\ UNCHANGED <<users, transactions, registration, hc, ret, ls, committed, topups,
                   winvars, run, rdvars, nr, txq, reqs>>

RemoveCardCascade(uid, user) ==
    /\ \/ /\ adm' = Returned("RemoveCard", <<uid, user>>, <<>>, "StoreError", TRUE)
          /\ UNCHANGED <<cards, transactions, committed>>
       \/ /\ \A c \in cards : ~(c.ID = uid /\ c.User = user)
          /\ adm' = Returned("RemoveCard", <<uid, user>>, <<>>, "ErrCardNotFound", FALSE)
          /\ UNCHANGED <<cards, transactions, committed>>
       \/ /\ \E c \in cards : c.ID = uid /\ c.User = user
          /\ CanCommit("RemoveCard")
          /\ cards' = { c \in cards : ~(c.ID = uid /\ c.User = user) }
          /\ transactions' = SelectSeq(transactions, LAMBDA t : t.Card # uid)
          /\ committed' = [u \in DOMAIN committed |->
                              SumAmounts(RowsOf(transactions', u))]
          /\ adm' = Returned("RemoveCard", <<uid, user>>, <<>>, "nil", FALSE)
    /\ UNCHANGED <<users, registration, hc, ret, ls, topups,
                   winvars, run, rdvars, nr, txq, reqs>>

RemoveCardAnyOwner(uid, user) ==
    /\ \/ /\ adm' = Returned("RemoveCard", <<uid, user>>, <<>>, "StoreError", TRUE)
          /\ UNCHANGED cards
       \/ /\ \A c \in cards : c.ID # uid
          /\ adm' = Returned("RemoveCard", <<uid, user>>, <<>>, "ErrCardNotFound", FALSE)
          /\ UNCHANGED cards
       \/ /\ \E c \in cards : c.ID = uid
          /\ CanCommit("RemoveCard")
          /\ cards' = { c \in cards : c.ID # uid }
          /\ adm' = Returned("RemoveCard", <<uid, user>>, <<>>, "nil", FALSE)
    /\ UNCHANGED <<users, transactions, registration, hc, ret, ls, committed, topups,
                   winvars, run, rdvars, nr, txq, reqs>>

RemoveCard(uid, user) ==
    /\ \/ /\ adm' = Returned("RemoveCard", <<uid, user>>, <<>>, "StoreError", TRUE)
          /\ UNCHANGED cards
       \/ /\ \A c \in cards : ~(c.ID = uid /\ c.User = user)
          /\ adm' = Returned("RemoveCard", <<uid, user>>, <<>>, "ErrCardNotFound", FALSE)
          /\ UNCHANGED cards
       \/ /\ \E c \in cards : c.ID = uid /\ c.User = user
          /\ CanCommit("RemoveCard")
          /\ cards' = { c \in cards : ~(c.ID = uid /\ c.User = user) }
          /\ adm' = Returned("RemoveCard", <<uid, user>>, <<>>, "nil", FALSE)
    /\ UNCHANGED <<users, transactions, registration, hc, ret, ls, committed, topups,
                   winvars, run, rdvars, nr, txq, reqs>>

UpdateCard(uid, user, description) ==
    /\ \/ /\ adm' = Returned("UpdateCard", <<uid, user, description>>, <<>>, "StoreError", TRUE)
          /\ UNCHANGED cards
       \/ /\ \A c \in cards : ~(c.ID = uid /\ c.User = user)
          /\ adm' = Returned("UpdateCard", <<uid, user, description>>, <<>>,
                             "ErrCardNotFound", FALSE)
          /\ UNCHANGED cards
       \/ /\ \E c \in cards : c.ID = uid /\ c.User = user
          /\ CanCommit("UpdateCard")
          /\ cards' = { IF c.ID = uid /\ c.User = user
                           THEN [c EXCEPT !.Description = description]
                           ELSE c : c \in cards }
          /\ adm' = Returned("UpdateCard", <<uid, user, description>>, <<>>, "nil", FALSE)
    /\ UNCHANGED <<users, transactions, registration, hc, ret, ls, committed, topups,
                   winvars, run, rdvars, nr, txq, reqs>>

\* the hardware loop swipes meanwhile
AdmSwipe(uid) == HCSelectDefault("hw", uid) /\ UNCHANGED <<winvars, run, rdvars, auxvars>>

AdmLedger ==
    /\ HCLookup("hw") \/ HCBalance("hw") \/ HCCommit("hw")
    /\ UNCHANGED <<winvars, run, rdvars, auxvars>>

InitAdm == InitFrom({100})

NextAdm ==
    \/ \E name \in Names : RegisterUser(name)
    \/ \E uid \in AdmUIDs, owner \in {1, 2}, description \in Descriptions :
          AddCard(uid, owner, description)
    \/ \E uid \in AdmUIDs, user \in {1, 2} : RemoveCard(uid, user)
    \/ \E uid \in AdmUIDs, user \in {1, 2}, description \in Descriptions :
          UpdateCard(uid, user, description)

SpecAdm == InitAdm /\ [][NextAdm]_vars

\* user 1 swipes, removes, adds again and renames card aaaa while a user
\* registers
NextLog ==
    \/ RegisterUser("Ada")
    \/ AddCard("aaaa", 1, "")
    \/ RemoveCard("aaaa", 1)
    \/ UpdateCard("aaaa", 1, "Schluessel")
    \/ AdmSwipe("aaaa")
    \/ AdmLedger

SpecLog == InitAdm /\ [][NextLog]_vars

\* both users ask to remove card aaaa of user 1 and a card that does not
\* exist, while the hardware loop swipes aaaa
NextRm ==
    \/ \E uid \in AdmUIDs, user \in {1, 2} : RemoveCard(uid, user)
    \/ AdmSwipe("aaaa")
    \/ AdmLedger

SpecRm == InitAdm /\ [][NextRm]_vars

(* ------------------------------------------- concurrent HTTP requests *)
\* RegisterUser, AddCard and RemoveCard as the handlers of concurrent
\* requests run them: each call is a transaction of two steps, the SELECT
\* that checks and the statement with the Commit. The transaction that has
\* read holds its lock until it ends (OpenTx)
Calling(op, args) == [pc |-> "write", op |-> op, args |-> args]

\* Beginx, bcrypt and SELECT ... FROM users WHERE name = $1
RegisterUserSelect(r, name) ==
    /\ reqs[r].pc = "idle"
    /\ \/ /\ adm' = Returned("RegisterUser", <<name>>, <<>>, "StoreError", TRUE)
          /\ UNCHANGED reqs
       \/ /\ \E u \in users : u.Name = name
          /\ adm' = Returned("RegisterUser", <<name>>, <<>>, "ErrUserExists", FALSE)
          /\ UNCHANGED reqs
       \/ /\ \A u \in users : u.Name # name
          /\ reqs' = [reqs EXCEPT ![r] = Calling("RegisterUser", <<name>>)]
          /\ UNCHANGED adm
    /\ UNCHANGED <<corevars, winvars, run, rdvars, nr, txq>>

\* INSERT INTO users, LastInsertId and Commit; the table has no constraint
\* on name
RegisterUserInsert(r) ==
    /\ reqs[r].pc = "write"
    /\ reqs[r].op = "RegisterUser"
    /\ reqs' = [reqs EXCEPT ![r] = NoRequest]
    /\ LET name == reqs[r].args[1]
           user == [ID |-> NextUserID, Name |-> name]
       IN  \/ /\ adm' = Returned("RegisterUser", <<name>>, <<>>, "StoreError", TRUE)
              /\ UNCHANGED users
           \/ /\ Cardinality(users) < MaxUsers
              /\ CanCommit(r)
              /\ users' = users \cup {user}
              /\ adm' = Returned("RegisterUser", <<name>>, <<user>>, "nil", FALSE)
    /\ UNCHANGED <<cards, transactions, registration, hc, ret, ls, committed, topups,
                   winvars, run, rdvars, nr, txq>>

\* Beginx and SELECT ... FROM cards WHERE card_id = $1
AddCardSelect(r, uid, owner) ==
    /\ reqs[r].pc = "idle"
    /\ \/ /\ adm' = Returned("AddCard", <<uid, owner, "">>, <<>>, "StoreError", TRUE)
          /\ UNCHANGED reqs
       \/ /\ \E c \in cards : c.ID = uid
          /\ adm' = Returned("AddCard", <<uid, owner, "">>, <<>>, "ErrCardExists", FALSE)
          /\ UNCHANGED reqs
       \/ /\ \A c \in cards : c.ID # uid
          /\ reqs' = [reqs EXCEPT ![r] = Calling("AddCard", <<uid, owner, "">>)]
          /\ UNCHANGED adm
    /\ UNCHANGED <<corevars, winvars, run, rdvars, nr, txq>>

AddCardInsertUnguarded(r) ==
    /\ reqs[r].pc = "write"
    /\ reqs[r].op = "AddCard"
    /\ reqs' = [reqs EXCEPT ![r] = NoRequest]
    /\ LET uid == reqs[r].args[1]
           owner == reqs[r].args[2]
       IN  \/ /\ adm' = Returned("AddCard", reqs[r].args, <<>>, "StoreError", TRUE)
              /\ UNCHANGED cards
           \/ /\ cards' = cards \cup {[ID |-> uid, User |-> owner, Description |-> ""]}
              /\ adm' = Returned("AddCard", reqs[r].args,
                                 <<[ID |-> uid, User |-> owner]>>, "nil", FALSE)
    /\ UNCHANGED <<users, transactions, registration, hc, ret, ls, committed, topups,
                   winvars, run, rdvars, nr, txq>>

\* INSERT INTO cards and Commit; card_id is the PRIMARY KEY of the table, so
\* the INSERT of an identifier the table holds fails
AddCardInsert(r) ==
    /\ reqs[r].pc = "write"
    /\ reqs[r].op = "AddCard"
    /\ reqs' = [reqs EXCEPT ![r] = NoRequest]
    /\ LET uid == reqs[r].args[1]
           owner == reqs[r].args[2]
       IN  \/ /\ adm' = Returned("AddCard", reqs[r].args, <<>>, "StoreError", TRUE)
              /\ UNCHANGED cards
           \/ /\ \A c \in cards : c.ID # uid
              /\ CanCommit(r)
              /\ cards' = cards \cup {[ID |-> uid, User |-> owner, Description |-> ""]}
              /\ adm' = Returned("AddCard", reqs[r].args,
                                 <<[ID |-> uid, User |-> owner]>>, "nil", FALSE)
    /\ UNCHANGED <<users, transactions, registration, hc, ret, ls, committed, topups,
                   winvars, run, rdvars, nr, txq>>

\* Beginx and SELECT ... FROM cards WHERE card_id = $1 AND user_id = $2
RemoveCardSelect(r, uid, user) ==
    /\ reqs[r].pc = "idle"
    /\ \/ /\ adm' = Returned("RemoveCard", <<uid, user>>, <<>>, "StoreError", TRUE)
          /\ UNCHANGED reqs
       \/ /\ \A c \in cards : ~(c.ID = uid /\ c.User = user)
          /\ adm' = Returned("RemoveCard", <<uid, user>>, <<>>, "ErrCardNotFound", FALSE)
          /\ UNCHANGED reqs
       \/ /\ \E c \in cards : c.ID = uid /\ c.User = user
          /\ reqs' = [reqs EXCEPT ![r] = Calling("RemoveCard", <<uid, user>>)]
          /\ UNCHANGED adm
    /\ UNCHANGED <<corevars, winvars, run, rdvars, nr, txq>>

\* DELETE FROM cards WHERE card_id == $1 AND user_id == $2 and Commit
RemoveCardDelete(r) ==
    /\ reqs[r].pc = "write"
    /\ reqs[r].op = "RemoveCard"
    /\ reqs' = [reqs EXCEPT ![r] = NoRequest]
    /\ LET uid == reqs[r].args[1]
           user == reqs[r].args[2]
       IN  \/ /\ adm' = Returned("RemoveCard", reqs[r].args, <<>>, "StoreError", TRUE)
              /\ UNCHANGED cards
           \/ /\ CanCommit(r)
              /\ cards' = { c \in cards : ~(c.ID = uid /\ c.User = user) }
              /\ adm' = Returned("RemoveCard", reqs[r].args, <<>>, "nil", FALSE)
    /\ UNCHANGED <<users, transactions, registration, hc, ret, ls, committed, topups,
                   winvars, run, rdvars, nr, txq>>

NextReq ==
    \/ \E r \in Requests, name \in Names : RegisterUserSelect(r, name)
    \/ \E r \in Requests : RegisterUserInsert(r)
    \/ \E r \in Requests, uid \in AdmUIDs, owner \in {1, 2} : AddCardSelect(r, uid, owner)
    \/ \E r \in Requests : AddCardInsert(r)
    \/ \E r \in Requests, uid \in AdmUIDs, user \in {1, 2} : RemoveCardSelect(r, uid, user)
    \/ \E r \in Requests : RemoveCardDelete(r)

SpecReq == InitAdm /\ [][NextReq]_vars

(* -------------------------------------------------------------- claims *)
UserIDs == {1, 2}

\* a step in which a HandleCard invocation returns
Returns ==
    \/ \E p \in Callers : hc[p].pc \in {"lookup", "balance", "commit"} /\ hc'[p].pc = "idle"
    \/ \E l \in Listeners : ls[l].pc = "waiting" /\ ls'[l].pc = "received"

\* a step in which HandleCard is entered and its select runs
Arrives ==
    \/ \E p \in Callers : hc[p].pc = "idle" /\ hc'[p].pc # "idle"
    \/ \E l \in Listeners : ls[l].pc = "waiting" /\ ls'[l].pc = "received"

\* the last return is one of the ledger path that read the balance
ReadBalance(call) == call.pc = "done" /\ call.user # NoUser /\ call.fault = ""

\* C1: the balance GetBalance computes for a user, and the balance a
\* HandleCard invocation has read before charging, is the sum of the amounts
\* of the user's committed transactions; it is 0 without transactions
C1_BalanceIsSum ==
    /\ \A u \in UserIDs : GetBalance(u) = committed[u]
    /\ \A u \in UserIDs : RowsOf(transactions, u) = <<>> => GetBalance(u) = 0
    /\ \A p \in Callers : hc[p].pc = "commit" => hc[p].balance = hc[p].sumAtRead
    /\ ReadBalance(ret) => ret.balance = ret.sumAtRead

C1_Witness ==
    /\ \E i \in DOMAIN transactions : transactions[i].Kind = "Kartenswipe"
    /\ \E i \in DOMAIN transactions : transactions[i].User = 2
    /\ GetBalance(1) > 0 /\ GetBalance(2) > 0

\* C2: a call that returns PaymentMade or LowBalance has appended exactly
\* one row, (owner of the card, swiped card, -100, "Kartenswipe"), and the
\* owner's balance has dropped by exactly 100
C2_ChargeAppendsOneRow ==
    [][(Returns /\ ret'.res.Code \in {"PaymentMade", "LowBalance"}) =>
        /\ ret'.appended = 1
        /\ \E c \in cards :
              /\ c.ID = ret'.uid
              /\ transactions' = Append(transactions,
                    [User |-> c.User, Card |-> ret'.uid, Amount |-> -100,
                     Kind |-> "Kartenswipe"])
              /\ GetBalance(c.User)' = GetBalance(c.User) - 100]_vars

C2_Witness ==
    /\ ret.res.Code = "LowBalance"
    /\ ret.appended = 1
    /\ transactions # <<>>
    /\ transactions[Len(transactions)].Card = ret.uid

\* C3: a call that reports CardNotFound or AccountEmpty has appended no
\* row, and its return leaves the table and every balance as they were
C3_NoWriteOnRejection ==
    [][(Returns /\ (ret'.err = "ErrCardNotFound" \/ ret'.res.Code = "AccountEmpty")) =>
        /\ ret'.appended = 0
        /\ transactions' = transactions
        /\ \A u \in UserIDs : GetBalance(u)' = GetBalance(u)]_vars

C3_Witness ==
    /\ ret.res.Code = "AccountEmpty"
    /\ ret.appended = 0
    /\ ret.sumAtRead = 99

\* C4: with b the owner's balance before the charge: b < 100 gives
\* AccountEmpty and no charge, 100 <= b < 600 a charge and LowBalance,
\* b >= 600 a charge and PaymentMade
C4_Thresholds ==
    ReadBalance(ret) =>
        LET b == ret.sumAtRead
        IN  /\ b < 100 => ret.res.Code = "AccountEmpty" /\ ret.appended = 0
            /\ (100 <= b /\ b < 600) => ret.res.Code = "LowBalance" /\ ret.appended = 1
            /\ b >= 600 => ret.res.Code = "PaymentMade" /\ ret.appended = 1

C4_Witness ==
    /\ ReadBalance(ret)
    /\ ret.sumAtRead = 600
    /\ ret.res.Code = "PaymentMade"

\* C5: a call that finds a balance below 100 returns a Result with code
\* AccountEmpty together with ErrAccountEmpty
C5_EmptyReturnsErrAccountEmpty ==
    (ReadBalance(ret) /\ ret.sumAtRead < 100) =>
        /\ ret.res.Code = "AccountEmpty"
        /\ ret.err = "ErrAccountEmpty"

\* C6: the account is charged if and only if the returned error is nil
C6_ChargedIffNilError ==
    ret.pc = "done" => (ret.err = "nil" <=> ret.appended = 1)

\* C7: the balance in the Result of a successful charge is the balance
\* after the charge
C7_ReportsPostChargeBalance ==
    (ret.pc = "done" /\ ret.res.Code \in {"PaymentMade", "LowBalance"}) =>
        ret.res.Account = AccountOf(ret.sumAtRead - 100)

\* C8: a swipe that arrives while a listener is receiving on the card
\* channel is delivered to a listener and does not reach the ledger: no
\* lookup, no row, no ErrCardNotFound
C8_RegistrationExclusive ==
    [][(Arrives /\ \E l \in Listeners : ls[l].pc = "waiting") =>
        /\ \E l \in Listeners :
              /\ ls[l].pc = "waiting"
              /\ ls'[l].pc = "received"
              /\ ls'[l].uid = ret'.uid
        /\ \A p \in Callers : hc'[p] = hc[p]
        /\ ret'.paths = {"listener"}
        /\ ret'.err = "nil"
        /\ ret'.appended = 0
        /\ transactions' = transactions]_vars

C8_Witness ==
    /\ ret.paths = {"listener"}
    /\ ret.uid = "aaaa"
    /\ GetBalance(1) >= 100
    /\ \E l \in Listeners : ls[l].pc = "received" /\ ls[l].uid = "aaaa"

\* C9: every swipe is claimed by exactly one of the listener and the ledger
\* path, and by the ledger path when no listener is receiving
C9_ExactlyOnePath ==
    [][/\ ret'.pc = "done" => Cardinality(ret'.paths) = 1
       /\ \A p \in Callers : hc'[p].pc \in {"balance", "commit"} => hc'[p].paths = {"ledger"}
       /\ (Arrives /\ \A l \in Listeners : ls[l].pc # "waiting") =>
             /\ ls' = ls
             /\ \E p \in Callers : hc[p].pc = "idle" /\ hc'[p].pc = "lookup"]_vars

C9_Witness ==
    /\ ret.paths = {"ledger"}
    /\ ret.appended = 1
    /\ \E p \in Callers : hc[p].pc = "lookup"
    /\ \E l \in Listeners : ls[l].pc = "locked"

\* C10: at most one AddCardEvent invocation is past Lock() at a time
C10_SingleSlot ==
    Cardinality({ l \in Listeners :
                    ls[l].pc \in {"locked", "waiting", "received", "expired"} }) <= 1

C10_Witness ==
    /\ ls["l1"].pc = "lockwait"
    /\ ls["l2"].pc = "waiting"
    /\ registration = "l2"

\* C15: a debit is committed only on the balance its own transaction read:
\* when a HandleCard call appends its debit, the committed sum of the user is
\* still the one the call read, so two overlapping calls for one user never
\* both debit on the same pre-charge balance
C15_DebitOnOwnRead ==
    [][\A p \in Callers :
          (hc[p].pc = "commit" /\ hc'[p].pc = "idle" /\ transactions' # transactions)
              => /\ hc[p].sumAtRead = committed[hc[p].user.ID]
                 /\ \A q \in Callers \ {p} :
                       hc[q].pc = "commit" => hc[q].user # hc[p].user]_vars

\* both callers have read the same balance of the same user and are about
\* to debit it
C15_Witness ==
    /\ hc["hw"].pc = "commit"
    /\ hc["http"].pc = "commit"
    /\ hc["hw"].user = hc["http"].user
    /\ hc["hw"].sumAtRead = hc["http"].sumAtRead

\* C11: a request that waits in Lock() is served: it eventually holds the
\* lock and has announced "lock" to its client
C11_QueuedEventuallyLocks ==
    \A l \in Listeners : (ls[l].pc = "lockwait") ~> (ls[l].pc = "locked")

\* a request that called Lock() while another listener held it has got it
C11_Witness ==
    \E l \in queued : ls[l].pc = "locked" /\ registration = l

\* C12: an AddCardEvent invocation holds the lock only while it runs between
\* Lock() and its return: once it has returned, by whichever exit, or while
\* it still waits in Lock(), the lock is not its own
C12_ReleasedOnExit ==
    \A l \in Listeners : ls[l].pc \in {"idle", "lockwait"} => registration # l

\* invocations have returned by a card and by the timeout, and the lock is free
C12_Witness ==
    /\ exits = {"card", "timeout"}
    /\ registration = ""

\* C13: a listener whose window expired never gets a card, and a swipe that
\* arrives after an expiry while no listener is parked enters the ledger path
C13_ExpiryReverts ==
    [][/\ \A l \in Listeners :
             ls[l].pc = "expired" \/ ls'[l].pc = "expired"
                 => ls'[l].uid = "" /\ ls'[l].pc \in {"expired", "idle"}
       /\ (lapsed # "none" /\ \A l \in Listeners : ls[l].pc # "waiting")
              => /\ \A l \in Listeners :
                       ls'[l].pc = "received" => ls[l].pc = "received"
                 /\ \A p \in Callers :
                       hc[p].pc = "idle" /\ hc'[p].pc # "idle"
                           => hc'[p].pc = "lookup"]_vars

\* a swipe that arrived after an expiry is on the ledger path, about to be
\* charged
C13_Witness ==
    /\ lapsed = "reverted"
    /\ hc["hw"].pc = "commit"
    /\ \A l \in Listeners : ls[l].pc # "waiting"

\* C14 as stated: while a listener has announced "lock" and its window has
\* not ended, no swipe enters the ledger path
C14_FirstSwipeGoesToListener ==
    [][\A l \in Listeners :
          ls[l].pc \in {"locked", "waiting"}
              => \A p \in Callers : ~(hc[p].pc = "idle" /\ hc'[p].pc = "lookup")]_vars

Min(a, b) == IF a < b THEN a ELSE b

\* C16: since the last top-up left user 1 with balance B, the n swipes of
\* the user's cards that were handled made min(n, B div 100) debits of 100,
\* and a swipe beyond that number was refused as AccountEmpty
C16_DebitsPerUser ==
    /\ run.d = Min(run.n, run.B \div Charge)
    /\ committed[1] = run.B - Charge * run.d
    /\ (run.n > run.B \div Charge /\ ret.fault = "" /\ ret.user.ID = 1)
           => ret.res.Code = "AccountEmpty" /\ ret.appended = 0

\* card aaaa was charged, after which the swipe of the user's other card was
\* refused
C16_Witness ==
    /\ run.B >= Charge
    /\ run.n = 2
    /\ run.d = 1
    /\ \E i \in 1..Len(transactions) :
          transactions[i].Card = "aaaa" /\ transactions[i].Amount = 0 - Charge
    /\ ret.uid = "aaab"
    /\ ret.res.Code = "AccountEmpty"

\* the identifiers of the card events among the given events, in order
UidsOf(events) ==
    LET cardEvents == SelectSeq(events, LAMBDA e : e.Err = "nil")
    IN  [i \in 1..Len(cardEvents) |-> cardEvents[i].UID]

\* C17: the main loop takes an event only when no HandleCard of it is
\* running, and it has called HandleCard for exactly the card events it has
\* taken, one call per event, in the order taken
C17_SequentialInOrder ==
    [][/\ taken' # taken => hc["hw"].pc = "idle" /\ mainloop.pc = "recv"
       /\ hc["hw"].pc # "idle" => mainloop.pc = "incall"
       /\ begun' # begun
             => /\ mainloop.ev = taken[Len(taken)]
                /\ begun' = Append(begun, mainloop.ev.UID)
       /\ begun = IF mainloop.pc = "got" /\ mainloop.ev.Err = "nil"
                    THEN SubSeq(UidsOf(taken), 1, Len(UidsOf(taken)) - 1)
                    ELSE UidsOf(taken)]_vars

\* two different cards were taken and handled one after the other, and a
\* third event waits in the poller meanwhile
C17_Witness ==
    /\ Len(begun) = 2
    /\ begun[1] # begun[2]
    /\ begun = UidsOf(taken)
    /\ mainloop.pc = "incall"
    /\ poller.pc = "send"

\* C18 as stated: a card that lay on the reader through one or more scans has
\* yielded exactly one card event
C18_OneEventPerPresentation ==
    (field # <<>> /\ Head(field).Type = "ISO14443a" /\ pres.seen >= 1)
        => pres.events = 1

\* C19 as stated: once the loop has logged a reader error, it takes no
\* further event and the poller scans no more
C19_StopsOnReaderError ==
    [][logged > 0 => taken' = taken /\ scanned' = scanned /\ begun' = begun]_vars

\* C20: every event a scan yielded is handed to the main loop once and in
\* order; while one is undelivered the poller stays at its send with that
\* event, scanning nothing, until the main loop takes it
C20_NoEventLost ==
    [][/\ scanned = IF poller.pc = "send" THEN Append(taken, poller.ev) ELSE taken
       /\ poller.pc = "send"
             => \/ poller' = poller /\ scanned' = scanned /\ taken' = taken
                \/ /\ taken' = Append(taken, poller.ev)
                   /\ poller'.pc = "poll"
                   /\ scanned' = scanned]_vars

\* an event waits in the poller while the main loop is busy with the one
\* before
C20_Witness ==
    /\ poller.pc = "send"
    /\ mainloop.pc \in {"incall", "print"}
    /\ Len(taken) >= 1
    /\ scanned = Append(taken, poller.ev)

ResultCodes == {"UnknownCard", "AccountEmpty", "LowBalance", "PaymentMade"}

C27_StoreErrorNeverCardNotFound ==
    (ret.pc = "done" /\ ret.fault # "")
        => /\ ret.err \notin {"nil", "ErrCardNotFound"}
           /\ ret.res = NilResult

\* C28: a call whose INSERT or Commit fails returns a nil Result and the
\* error, and leaves the log and every balance as they were
C28_FailedCommitChangesNothing ==
    [][\A p \in Callers :
          (hc[p].pc = "commit" /\ hc'[p].pc = "idle" /\ ret'.fault \in {"insert", "commit"})
              => /\ ret'.res = NilResult
                 /\ ret'.err \in {"InsertError", "CommitError"}
                 /\ transactions' = transactions
                 /\ \A u \in UserIDs : GetBalance(u)' = GetBalance(u)]_vars

\* the Commit of a debit failed and the balance of the user is still the
\* one the call read
C28_Witness ==
    /\ ret.pc = "done"
    /\ ret.fault = "commit"
    /\ ret.res = NilResult
    /\ ret.balance >= Charge
    /\ GetBalance(ret.user.ID) = ret.balance

\* C22: a scan in which the device lists several targets yields one event,
\* the identifier of the first target and no error
C22_ClashUsesFirstTarget ==
    [][(/\ poller.pc = "poll"
        /\ poller'.pc = "send"
        /\ poller'.ev.Err # "device"
        /\ Len(field) > 1
        /\ Head(field).Type = "ISO14443a")
          => /\ poller'.ev = [UID |-> field[1].UID, Err |-> "nil"]
             /\ scanned' = Append(scanned, poller'.ev)]_vars

\* two cards lie on the reader and the scan has yielded the first one's
\* identifier
C22_Witness ==
    /\ Len(field) = 2
    /\ poller.pc = "send"
    /\ poller.ev = [UID |-> "foobar", Err |-> "nil"]
    /\ field[2].UID # "foobar"

\* C30 as stated: while a listener is parked waiting for a card, the
\* registration lock is free
C30_LockFreeWhileWaiting ==
    \A l \in Listeners : ls[l].pc = "waiting" => registration = ""

\* C21: a GetNextUID call that is pending when the reader is closed, or that
\* is made after it, returns the closed-reader error: no call returns an
\* identifier or a polling error once the reader is closed, and none stays
\* pending
C21_ClosedReaderFails ==
    /\ \A i \in 1..Len(nr.results) :
          nr.results[i].closed
              => nr.results[i].UID = "" /\ nr.results[i].Err = "reader is closed"
    /\ nr.closed => nr.gn # "parked"

\* a call got an identifier, the next one was pending when Close came and
\* returned the closed-reader error
C21_Witness ==
    /\ nr.woke
    /\ Len(nr.results) = 2
    /\ nr.results[1].Err = "nil"
    /\ nr.results[2].Err = "reader is closed"

\* how often the row occurs in the rows
Count(rows, row) == Cardinality({ i \in 1..Len(rows) : rows[i] = row })

\* C25: a GetTransactions call that succeeded returned rows of the user
\* only, newest first, as many as asked for (all of them for n <= 0, and
\* none for a user without rows), each a row of the table, and every row of
\* the user it left out is no newer than the rows it returned
C25_LatestOfUser ==
    txq.err = "nil"
        => LET mine == RowsOf(transactions, txq.user)
               out == txq.out
           IN  /\ \A i \in 1..Len(out) : out[i].User = txq.user
               /\ \A i \in 1..(Len(out) - 1) : out[i].Time >= out[i + 1].Time
               /\ Len(out) = IF txq.n > 0 THEN Min(txq.n, Len(mine)) ELSE Len(mine)
               /\ \A i \in 1..Len(out) : Count(out, out[i]) <= Count(mine, out[i])
               /\ \A j \in 1..Len(mine) :
                     Count(out, mine[j]) < Count(mine, mine[j])
                         => \A i \in 1..Len(out) : out[i].Time >= mine[j].Time

\* of the two rows of user 1 the newer one was returned for n = 1, and a
\* still newer row of user 2 was not
C25_Witness ==
    /\ txq.err = "nil"
    /\ txq.user = 1
    /\ txq.n = 1
    /\ Len(RowsOf(transactions, 1)) = 2
    /\ Len(txq.out) = 1
    /\ \E j \in 1..Len(transactions) :
          /\ transactions[j].User = 1
          /\ transactions[j].Time < txq.out[1].Time
    /\ \E j \in 1..Len(transactions) :
          /\ transactions[j].User = 2
          /\ transactions[j].Time > txq.out[1].Time

\* a step in which the named operation returns
Calls(op) == adm'.tick # adm.tick /\ adm'.op = op

\* C23: AddCard for an identifier that is bound to a card, the caller's own
\* or another user's, returns ErrCardExists and no card, and leaves users,
\* cards (owner and description of the binding) and transactions as they were
C23_AddCardExisting ==
    [][(Calls("AddCard") /\ \E c \in cards : c.ID = adm'.args[1])
          => /\ adm'.res = <<>>
             /\ ~adm'.fault => adm'.err = "ErrCardExists"
             /\ cards' = cards
             /\ users' = users
             /\ transactions' = transactions
             /\ committed' = committed]_vars

\* user 2 asked for card aaaa, which is bound to user 1 with a description,
\* and got ErrCardExists
C23_Witness ==
    /\ adm.op = "AddCard"
    /\ adm.err = "ErrCardExists"
    /\ adm.args[1] = "aaaa"
    /\ adm.args[2] = 2
    /\ [ID |-> "aaaa", User |-> 1, Description |-> "Schluessel"] \in cards

\* C24: RegisterUser with a taken name returns ErrUserExists and no user and
\* adds no row; with a free name, the store working, it adds one user of
\* that name with a new id and returns that user
C24_RegisterUser ==
    [][Calls("RegisterUser")
          => LET name == adm'.args[1]
                 nameTaken == \E u \in users : u.Name = name
             IN  /\ nameTaken
                       => /\ users' = users
                          /\ adm'.res = <<>>
                          /\ (~adm'.fault => adm'.err = "ErrUserExists")
                 /\ adm'.fault
                       => /\ users' = users
                          /\ adm'.res = <<>>
                 /\ (~nameTaken /\ ~adm'.fault)
                       => /\ adm'.err = "nil"
                          /\ Len(adm'.res) = 1
                          /\ adm'.res[1].Name = name
                          /\ adm'.res[1] \notin users
                          /\ \A u \in users : u.ID # adm'.res[1].ID
                          /\ users' = users \cup {adm'.res[1]}
                 /\ cards' = cards
                 /\ transactions' = transactions]_vars

\* a user with a free name was registered, and a second registration of the
\* name was refused
C24_Witness ==
    /\ adm.op = "RegisterUser"
    /\ adm.err = "ErrUserExists"
    /\ adm.args[1] = "Ada"
    /\ Cardinality({ u \in users : u.Name = "Ada" }) = 1
    /\ Cardinality(users) = 3

\* C29: every step leaves the rows of the log in place and at most appends
\* to them, so the balances change only by appended rows; the removal of a
\* card changes no balance
C29_AppendOnly ==
    [][/\ Len(transactions') >= Len(transactions)
       /\ SubSeq(transactions', 1, Len(transactions)) = transactions
       /\ Calls("RemoveCard")
             => \A u \in UserIDs : GetBalance(u)' = GetBalance(u)]_vars

\* card aaaa was charged and then removed; its debit is still in the log and
\* in the balance of its owner
C29_Witness ==
    /\ adm.op = "RemoveCard"
    /\ adm.err = "nil"
    /\ \A c \in cards : c.ID # "aaaa"
    /\ \E i \in 1..Len(transactions) :
          transactions[i].Card = "aaaa" /\ transactions[i].Amount = 0 - Charge
    /\ GetBalance(1) = 0

(* C31: no two users have the same name, also while several RegisterUser
   calls for one name have their transactions open at the same time *)
C31_NamesUnique ==
    \A u1 \in users, u2 \in users : u1.Name = u2.Name => u1 = u2

\* two RegisterUser calls for the name Ada have both found it free and
\* neither has inserted yet
C31_Witness ==
    /\ \A r \in Requests : reqs[r] = Calling("RegisterUser", <<"Ada">>)
    /\ \A u \in users : u.Name # "Ada"

(* C32: each card identifier is bound to at most one user, for any
   interleaving of AddCard and RemoveCard calls *)
C32_OneOwnerPerCard ==
    \A c1 \in cards, c2 \in cards : c1.ID = c2.ID => c1.User = c2.User

\* card aaaa was removed, and two AddCard calls that bind it to different
\* users have both found it free
C32_Witness ==
    /\ adm.op = "RemoveCard" /\ adm.err = "nil"
    /\ reqs["r1"] = Calling("AddCard", <<"aaaa", 1, "">>)
    /\ reqs["r2"] = Calling("AddCard", <<"aaaa", 2, "">>)

(* C33: RemoveCard(uid, user) removes the binding of uid exactly when uid is
   bound to user; for an identifier that is not bound or is bound to another
   user it returns ErrCardNotFound and leaves the cards as they were. A
   swipe of an identifier whose lookup runs after the removal returns
   UnknownCard with ErrCardNotFound and appends no transaction *)
C33_RemoveCard ==
    [][/\ Calls("RemoveCard") =>
             LET uid == adm'.args[1]
                 user == adm'.args[2]
                 own == { c \in cards : c.ID = uid /\ c.User = user }
             IN  /\ own = {} => /\ cards' = cards
                                /\ ~adm'.fault => adm'.err = "ErrCardNotFound"
                 /\ own # {} => \/ adm'.fault /\ cards' = cards
                                \/ adm'.err = "nil" /\ cards' = cards \ own
                 /\ users' = users /\ transactions' = transactions
       /\ (/\ hc["hw"].pc = "lookup"
           /\ hc'["hw"].pc # "lookup"
           /\ \A c \in cards : c.ID # hc["hw"].uid)
             => /\ hc'["hw"].pc = "idle"
                /\ transactions' = transactions
                /\ committed' = committed
                /\ ret'.appended = 0
                /\ ret'.fault = "" => /\ ret'.res.Code = "UnknownCard"
                                      /\ ret'.err = "ErrCardNotFound"]_vars

\* user 1 removed card aaaa, and the swipe of aaaa after that was answered
\* UnknownCard with ErrCardNotFound and charged nothing
C33_Witness ==
    /\ adm.op = "RemoveCard" /\ adm.args = <<"aaaa", 1>> /\ adm.err = "nil"
    /\ \A c \in cards : c.ID # "aaaa"
    /\ ret.pc = "done" /\ ret.uid = "aaaa" /\ ret.fault = ""
    /\ ret.res.Code = "UnknownCard" /\ ret.err = "ErrCardNotFound"
    /\ transactions = <<TopUpRow(1, 100)>>

\* hex.DecodeString: the bytes a string of hexadecimal digits stands for
RECURSIVE DecodeString(_)
DecodeString(digits) ==
    IF Len(digits) < 2 THEN <<>>
    ELSE <<16 * digits[1] + digits[2]>> \o DecodeString(Tail(Tail(digits)))

(* C34: one AddCardEvent invocation receives at most one identifier from
   k.card, the identifier of the swipe whose HandleCard call returned through
   the send; what it writes to its client are the hexadecimal digits of that
   identifier; and a swipe that arrives after it has received leaves it as
   it is *)
C34_OneShotListener ==
    [][\A l \in Listeners :
          /\ Len(ls'[l].got) <= 1
          /\ (ls'[l].got # ls[l].got /\ ls'[l].got # <<>>) =>
                /\ ls[l].pc = "waiting"
                /\ ls'[l].got = <<ret'.uid>>
                /\ ret'.paths = {"listener"}
          /\ ls'[l].reported # <<>> =>
                /\ Len(ls'[l].got) = 1
                /\ DecodeString(ls'[l].reported) = Bytes(ls'[l].got[1])
          /\ (ls[l].pc = "received" /\ Arrives) => ls'[l] = ls[l]]_vars

\* a request has received the swipe of aaaa and written 61616161 to its
\* client, and another swipe is on the ledger path
C34_Witness ==
    \E l \in Listeners, p \in Callers :
        /\ ls[l].got = <<"aaaa">>
        /\ ls[l].reported = <<6, 1, 6, 1, 6, 1, 6, 1>>
        /\ ret.paths = {"listener"} /\ ret.uid = "aaaa"
        /\ hc[p].pc = "lookup"
        /\ \A k \in Listeners : ls[k].pc \in {"idle", "lockwait"}

(* C35: the main loop is never stuck in HandleCard's hand-off: every event
   it has received is dealt with, by logging its error or by a HandleCard
   call that returns, and the loop receives again *)
C35_TakenEventIsHandled ==
    (mainloop.pc = "got") ~> (mainloop.pc = "recv")

\* the loop received an event while no listener was receiving, HandleCard
\* went on to the ledger and returned, and the loop receives again
C35_Witness ==
    /\ mainloop.pc = "recv"
    /\ Len(begun) = Len(taken) /\ Len(taken) >= 2
    /\ ret.pc = "done" /\ ret.paths = {"ledger"}
    /\ ls["l1"].pc = "locked"

(* C36: with a ledger that starts at a balance of at least 0 and gets only
   positive top-ups besides the swipes, the balance of every user stays at
   least 0, whether the HandleCard calls for the user's cards run one after
   the other or overlap *)
C36_BalanceNeverNegative ==
    \A u \in UserIDs :
        /\ GetBalance(u) >= 0
        /\ committed[u] >= 0
        /\ SumAmounts(RowsOf(transactions, u)) = committed[u]

\* user 1 is down to 0 after a debit, one swipe of the user's card has been
\* refused and another call for it is reading the balance
C36_Witness ==
    /\ GetBalance(1) = 0
    /\ \E i \in DOMAIN transactions : transactions[i].Kind = "Kartenswipe"
    /\ ret.res.Code = "AccountEmpty" /\ ret.user.ID = 1
    /\ \E p \in Callers : hc[p].pc = "balance" /\ hc[p].user.ID = 1

(* C37: a step of a HandleCard call, whatever the call returns, leaves the
   users and the cards as they were, and leaves the transactions and the
   balance of every user other than the owner of the swiped card as they
   were; a call for a card without an owner leaves them to all users *)
C37_OtherUsersUntouched ==
    [][/\ \A p \in Callers :
             hc'[p] # hc[p] =>
                 /\ users' = users
                 /\ cards' = cards
                 /\ \A u \in UserIDs :
                       u # hc[p].user.ID =>
                           /\ RowsOf(transactions', u) = RowsOf(transactions, u)
                           /\ SelectSum(transactions', u) = SelectSum(transactions, u)
                           /\ committed'[u] = committed[u]
       /\ (\E l \in Listeners : ls[l].pc = "waiting" /\ ls'[l].pc = "received") =>
             /\ users' = users
             /\ cards' = cards
             /\ transactions' = transactions
             /\ committed' = committed]_vars

\* user 2, topped up with 500, swiped card baaa and was charged, and the
\* seed of user 1 is all that user 1 has
C37_Witness ==
    /\ ret.pc = "done" /\ ret.uid = "baaa" /\ ret.user.ID = 2 /\ ret.appended = 1
    /\ RowsOf(transactions, 2) = <<TopUpRow(2, 500), SwipeRow(ret.user, "baaa")>>
    /\ RowsOf(transactions, 1) = <<TopUpRow(1, 599)>>
    /\ GetBalance(1) = 599

(* C38: once Close has been called, the goroutine running startPolling
   returns, wherever in its loop it was, also when GetNextUID is never
   called again *)
C38_PollerStopsAfterClose ==
    nr.closed ~> (nr.sp.pc = "stopped")

\* a card lay on the reader and GetNextUID was never called: the poller was
\* closed while it offered the uid, and has returned
C38_Witness ==
    /\ nr.closed
    /\ nr.sp.pc = "stopped"
    /\ nr.results = <<>>
    /\ field = <<Target("ISO14443a", "aaaa")>>
====
